---- MODULE Spec2Model ----
(***************************************************************************)
(* Conversation intent resolution and multi-turn context state machine of  *)
(* the HAI backend: ChatService.detect_intent / process_message            *)
(* (app/services/chat.py), the send / context endpoints and the            *)
(* conversation_contexts store (app/api/chat.py), MockLLMService           *)
(* (app/core/llm.py) and the memory rows they touch (app/crud/memory.py).  *)
(***************************************************************************)
EXTENDS Integers, Sequences, FiniteSets, TLC

(***************************************************************************)
(* Bounds of the model.                                                    *)
(***************************************************************************)
MaxLen == 3          \* longest text (in words) given to detect_intent alone
MaxMemories == 1     \* memory rows that can exist
MaxMessages == 4     \* message rows that can exist
MaxTasks == 2        \* send requests the server has accepted and not forgotten

(***************************************************************************)
(* Python values.  None is Optional's None; a value is falsy in an `if`    *)
(* when it is None or the empty string.                                    *)
(***************************************************************************)
None == "<None>"

Truthy(v) == v \notin {None, ""}

\* A dict is a function whose domain is its set of keys.
EmptyDict == [k \in {} |-> None]

Put(d, k, v) == [x \in DOMAIN d \cup {k} |-> IF x = k THEN v ELSE d[x]]

(***************************************************************************)
(* Texts.  A text is a sequence of words separated by single blanks; NL is *)
(* a line break standing between two words.                                *)
(***************************************************************************)
NL == "\n"

Vocab == {"save", "Save", "memory", "find", "delete", "change", "name",
          "password", "picture", "hello"}

Tokens == Vocab \cup {NL}

\* str.lower() on one word
Lower(w) == IF w = "Save" THEN "save" ELSE w

\* The pattern literals and in-focus keywords that are substrings of a
\* lower-case word (what `kw in text_lower` and re.search see of that word).
LitsIn(w) ==
  CASE w = "save"     -> {"save"}
    [] w = "memory"   -> {"memory", "me"}
    [] w = "find"     -> {"find"}
    [] w = "delete"   -> {"delete"}
    [] w = "change"   -> {"change"}
    [] w = "name"     -> {"name", "me"}
    [] w = "password" -> {"password"}
    [] w = "picture"  -> {"picture"}
    [] OTHER          -> {}

\* text.lower()
RECURSIVE lower(_)
lower(text) ==
  IF text = <<>> THEN <<>> ELSE <<Lower(Head(text))>> \o lower(Tail(text))

\* `kw in text_lower`
Contains(text_lower, kw) ==
  \E i \in 1..Len(text_lower) : kw \in LitsIn(text_lower[i])

(***************************************************************************)
(* The intent table.  A pattern "a.*b.*c" is the sequence of its literals; *)
(* the dict keeps insertion order, so the table is a sequence.             *)
(***************************************************************************)
intent_patterns == <<
  [intent |-> "save_memory", patterns |-> <<
     <<"save", "memory">>, <<"want", "save", "memory">>, <<"keep", "memory">>,
     <<"remember", "this">>, <<"store", "memory">> >>],
  [intent |-> "search_memory", patterns |-> <<
     <<"search", "memory">>, <<"find", "memory">>, <<"look", "for", "memory">>,
     <<"show", "memory">>, <<"show", "photos">>, <<"find", "photos">> >>],
  [intent |-> "delete_memory", patterns |-> <<
     <<"delete", "memory">>, <<"remove", "memory">>, <<"don't", "want", "keep">>,
     <<"delete", "photo">>, <<"remove", "photo">> >>],
  [intent |-> "edit_memory", patterns |-> <<
     <<"edit", "memory">>, <<"change", "memory">>, <<"update", "memory">>,
     <<"modify", "memory">>, <<"change", "description">> >>],
  [intent |-> "update_name", patterns |-> <<
     <<"change", "name">>, <<"update", "name">>, <<"new", "name">>,
     <<"call", "me">>, <<"name", "should", "be">> >>],
  [intent |-> "update_avatar", patterns |-> <<
     <<"change", "picture">>, <<"update", "avatar">>, <<"new", "profile">>,
     <<"change", "profile", "picture">>, <<"update", "profile">> >>],
  [intent |-> "update_password", patterns |-> <<
     <<"change", "password">>, <<"update", "password">>, <<"new", "password">>,
     <<"reset", "password">>, <<"forgot", "password">> >> ] >>

\* re.search(pattern, text_lower): the literals occur in order on one line
\* ('.' does not match a line break).  k literals are matched before word i.
RECURSIVE SearchFrom(_, _, _, _)
SearchFrom(pattern, text_lower, i, k) ==
  IF k = Len(pattern) THEN TRUE
  ELSE IF i > Len(text_lower) THEN FALSE
  ELSE IF text_lower[i] = NL THEN SearchFrom(pattern, text_lower, i + 1, 0)
  ELSE IF pattern[k + 1] \in LitsIn(text_lower[i])
       THEN SearchFrom(pattern, text_lower, i + 1, k + 1)
       ELSE SearchFrom(pattern, text_lower, i + 1, k)

re_search(pattern, text_lower) == SearchFrom(pattern, text_lower, 1, 0)

AnyPattern(patterns, text_lower) ==
  \E j \in 1..Len(patterns) : re_search(patterns[j], text_lower)

\* ScanTable with the table walked from its last entry to its first
RECURSIVE ScanTableBackwards(_, _)
ScanTableBackwards(text_lower, n) ==
  LET m == Len(intent_patterns) + 1 - n IN
  IF n > Len(intent_patterns) THEN "chat"
  ELSE IF AnyPattern(intent_patterns[m].patterns, text_lower)
       THEN intent_patterns[m].intent
       ELSE ScanTableBackwards(text_lower, n + 1)

\* the two nested for loops over intent_patterns, from entry n on
RECURSIVE ScanTable(_, _)
ScanTable(text_lower, n) ==
  IF n > Len(intent_patterns) THEN "chat"
  ELSE IF AnyPattern(intent_patterns[n].patterns, text_lower)
       THEN intent_patterns[n].intent
       ELSE ScanTable(text_lower, n + 1)

\* `if current_context and key in current_context`; a None context and an
\* empty dict are both falsy, so the empty dict stands for both.
HasKey(current_context, key) ==
  DOMAIN current_context # {} /\ key \in DOMAIN current_context

\* detect_intent with the memory_id keyword checks ahead of expected_intent
detect_intent_focus_first(text, current_context) ==
  LET text_lower == lower(text) IN
  IF HasKey(current_context, "memory_id")
     /\ (Contains(text_lower, "change") \/ Contains(text_lower, "edit")
         \/ Contains(text_lower, "update"))
  THEN "edit_memory"
  ELSE IF HasKey(current_context, "memory_id")
          /\ (Contains(text_lower, "delete") \/ Contains(text_lower, "remove"))
       THEN "delete_memory"
  ELSE IF HasKey(current_context, "expected_intent")
       THEN current_context["expected_intent"]
  ELSE ScanTable(text_lower, 1)

\* detect_intent with the pattern table scanned ahead of the keyword checks
detect_intent_table_first(text, current_context) ==
  LET text_lower == lower(text)
      scanned    == ScanTable(text_lower, 1) IN
  IF HasKey(current_context, "expected_intent")
  THEN current_context["expected_intent"]
  ELSE IF scanned # "chat" THEN scanned
  ELSE IF HasKey(current_context, "memory_id")
          /\ (Contains(text_lower, "change") \/ Contains(text_lower, "edit")
              \/ Contains(text_lower, "update"))
       THEN "edit_memory"
  ELSE IF HasKey(current_context, "memory_id")
          /\ (Contains(text_lower, "delete") \/ Contains(text_lower, "remove"))
       THEN "delete_memory"
  ELSE "chat"

detect_intent(text, current_context) ==
  LET text_lower == lower(text) IN
  IF HasKey(current_context, "expected_intent")
  THEN current_context["expected_intent"]
  ELSE IF HasKey(current_context, "memory_id")
          /\ (Contains(text_lower, "change") \/ Contains(text_lower, "edit")
              \/ Contains(text_lower, "update"))
       THEN "edit_memory"
  ELSE IF HasKey(current_context, "memory_id")
          /\ (Contains(text_lower, "delete") \/ Contains(text_lower, "remove"))
       THEN "delete_memory"
  ELSE ScanTable(text_lower, 1)

(***************************************************************************)
(* State.                                                                  *)
(***************************************************************************)
VARIABLES
  conversation_contexts,  \* api/chat.py: user id -> context dict
  memories,               \* the memories table, in creation order
  messages,               \* the messages table, in insertion order
  users,                  \* the users table: user id -> profile row
  tasks,                  \* send requests the server has accepted: id -> coroutine
  last,                   \* the endpoint call being answered: request and outcome
  call                    \* a direct call of detect_intent: input and result

vars == <<conversation_contexts, memories, messages, users, tasks, last, call>>

Users == {"u1", "u2"}

\* ids of memory rows, in the order the rows are created (fresh uuid-based ids)
MemIdNames == <<"mem-1", "mem-2", "mem-3", "mem-4">>

MemIds == {MemIdNames[i] : i \in 1..MaxMemories}

ImageUrls == {"/u/1.jpg"}

IntentId == {"chat", "save_memory", "add_description", "memory_saved",
             "search_memory", "confirm_delete", "memory_deleted",
             "edit_memory", "ask_new_value", "memory_updated", "update_name",
             "name_changed", "update_avatar", "avatar_updated",
             "update_password", "confirm_password", "password_updated",
             "delete_memory"}

\* the two lists of send_chat_message
ContinuationIntents == {"save_memory", "add_description", "edit_memory",
                        "confirm_delete", "update_password"}

CompletionIntents == {"memory_saved", "memory_deleted", "memory_updated",
                      "name_changed", "avatar_updated", "password_updated"}

(***************************************************************************)
(* MockLLMService.generate_response: the response skeleton, the content    *)
(* template of the intent and the per-intent metadata.  A string is the    *)
(* sequence of its pieces, a placeholder being a piece of its own; "" is   *)
(* the empty sequence.                                                     *)
(***************************************************************************)
\* generate_message_id: the id is made of the prefix, the millisecond clock
\* and secrets.token_hex(4).  n stands for the last two: the pair of them
\* where ids are studied (SpecIds), and elsewhere the number of the draw,
\* which takes every draw to give a pair no draw before it gave.
generate_message_id(prefix, n) == <<prefix, n>>

generate_ai_message_id(n) == generate_message_id("ai", n)

\* the keys of self.intent_responses
ResponseKeys == {"chat", "save_memory", "add_description", "memory_saved",
                 "search_memory", "confirm_delete", "memory_deleted",
                 "edit_memory", "ask_new_value", "memory_updated",
                 "update_name", "name_changed", "update_avatar",
                 "avatar_updated", "update_password", "confirm_password",
                 "password_updated"}

\* self.intent_responses: the value under "chat" is a list, the others are str
intent_responses ==
  [k \in ResponseKeys |->
     CASE k = "chat" ->
            [is_str |-> FALSE,
             value  |-> <<"Hello! How can I help you today?",
                          "Hi there! What can I do for you?",
                          "Greetings! I'm here to assist you.">>]
       [] k = "save_memory" ->
            [is_str |-> TRUE,
             value  |-> <<"Of course. Please upload a photo you'd like to save as a memory.">>]
       [] k = "add_description" ->
            [is_str |-> TRUE,
             value  |-> <<"Your photo is ready. Whenever you're comfortable, you can tell me a few simple words about this memory.">>]
       [] k = "memory_saved" ->
            [is_str |-> TRUE,
             value  |-> <<"That's a beautiful memory. I've saved it for you, and you can revisit or edit it anytime.">>]
       [] k = "search_memory" ->
            [is_str |-> TRUE, value |-> <<"Here are the memories I found:">>]
       [] k = "confirm_delete" ->
            [is_str |-> TRUE,
             value  |-> <<"Of course. Are you sure you want to delete this? You can delete just the photo or the entire memory.">>]
       [] k = "memory_deleted" ->
            [is_str |-> TRUE,
             value  |-> <<"Alright, I've deleted this photo for you. You can always add it again later if you wish.">>]
       [] k = "edit_memory" ->
            [is_str |-> TRUE,
             value  |-> <<"Absolutely-you can change anything you want. What would you like to update: the title, the description?">>]
       [] k = "ask_new_value" ->
            [is_str |-> TRUE, value |-> <<"What would you like it to say instead?">>]
       [] k = "memory_updated" ->
            [is_str |-> TRUE,
             value  |-> <<"That's beautiful. I've updated your memory exactly as you described it. You can edit it again anytime-you're always in control.">>]
       [] k = "update_name" ->
            [is_str |-> TRUE,
             value  |-> <<"Of course. Your current name is ", "{current_name}",
                          ". What would you like it to be?">>]
       [] k = "name_changed" ->
            [is_str |-> TRUE,
             value  |-> <<"Got it-I've updated your name to ", "{new_name}",
                          ". You can change it again anytime if you wish.">>]
       [] k = "update_avatar" ->
            [is_str |-> TRUE,
             value  |-> <<"Great. When you're ready, please choose a photo from your gallery. I'll only change your avatar after you confirm.">>]
       [] k = "avatar_updated" ->
            [is_str |-> TRUE,
             value  |-> <<"All done. Your profile photo has been updated-you can always change it again whenever you like.">>]
       [] k = "update_password" ->
            [is_str |-> TRUE,
             value  |-> <<"No problem. To keep your account safe, I'll guide you step by step. Please enter your new password.">>]
       [] k = "confirm_password" ->
            [is_str |-> TRUE,
             value  |-> <<"Great. Just one more step-please type it again to confirm.">>]
       [] k = "password_updated" ->
            [is_str |-> TRUE,
             value  |-> <<"Perfect. Your password has been updated safely. If you ever forget it, I'll help you recover it. You're doing everything correctly-no need to worry.">>] ]

\* str.replace(placeholder, value)
replace(content, placeholder, value) ==
  [i \in 1..Len(content) |->
     IF content[i] = placeholder THEN value ELSE content[i]]

\* generate_response whose meta is one dict shared by all responses: what a
\* caller added to the response before is still in it
generate_response_shared_meta(intent, user_data, context, n) ==
  LET content_template == intent_responses[intent]
      named   == IF HasKey(user_data, "current_name")
                 THEN replace(content_template.value, "{current_name}",
                              user_data["current_name"])
                 ELSE content_template.value
      renamed == IF HasKey(context, "new_name")
                 THEN replace(named, "{new_name}", context["new_name"])
                 ELSE named
      shared  == IF "response" \in DOMAIN last THEN last.response.meta ELSE EmptyDict
  IN [msgId   |-> generate_ai_message_id(n),
      sender  |-> "ai",
      intent  |-> intent,
      content |-> IF intent \in ResponseKeys /\ content_template.is_str
                  THEN renamed ELSE <<>>,
      meta    |-> CASE intent = "save_memory"    -> Put(shared, "needImage", TRUE)
                    [] intent = "confirm_delete" -> Put(shared, "options", <<"photo", "memory">>)
                    [] intent = "edit_memory"    -> Put(shared, "fields", <<"title", "description">>)
                    [] OTHER                     -> shared]

\* user_data and context are Optional dicts; None and {} are both falsy in
\* `if d and key in d`, so the empty dict stands for both (HasKey).
generate_response(intent, user_data, context, n) ==
  LET content_template == intent_responses[intent]
      named   == IF HasKey(user_data, "current_name")
                 THEN replace(content_template.value, "{current_name}",
                              user_data["current_name"])
                 ELSE content_template.value
      renamed == IF HasKey(context, "new_name")
                 THEN replace(named, "{new_name}", context["new_name"])
                 ELSE named
  IN [msgId   |-> generate_ai_message_id(n),
      sender  |-> "ai",
      intent  |-> intent,
      content |-> IF intent \in ResponseKeys /\ content_template.is_str
                  THEN renamed ELSE <<>>,
      meta    |-> CASE intent = "save_memory"    -> Put(EmptyDict, "needImage", TRUE)
                    [] intent = "confirm_delete" -> Put(EmptyDict, "options", <<"photo", "memory">>)
                    [] intent = "edit_memory"    -> Put(EmptyDict, "fields", <<"title", "description">>)
                    [] OTHER                     -> EmptyDict]

\* ai_response["meta"][k] = v
WithMeta(ai_response, k, v) ==
  [ai_response EXCEPT !.meta = Put(ai_response.meta, k, v)]

(***************************************************************************)
(* MemoryCRUD.                                                             *)
(***************************************************************************)
\* NewMemory with the image url and the description swapped
NewMemory_swapped(rows, user_id, image_url, description, title, labels) ==
  [id          |-> MemIdNames[Len(rows) + 1],
   user_id     |-> user_id,
   image_url   |-> description,
   description |-> image_url,
   title       |-> title,
   labels      |-> IF labels = None THEN <<>> ELSE labels,
   is_deleted  |-> FALSE]

\* Memory(...) row as memory_crud.create builds it
NewMemory(rows, user_id, image_url, description, title, labels) ==
  [id          |-> MemIdNames[Len(rows) + 1],
   user_id     |-> user_id,
   image_url   |-> image_url,
   description |-> description,
   title       |-> title,
   labels      |-> IF labels = None THEN <<>> ELSE labels,
   is_deleted  |-> FALSE]

\* index of the row get_by_id returns, 0 for None
get_by_id(rows, memory_id, include_deleted) ==
  LET found == {i \in 1..Len(rows) :
                  /\ rows[i].id = memory_id
                  /\ (include_deleted \/ ~rows[i].is_deleted)}
  IN IF found = {} THEN 0 ELSE CHOOSE i \in found : TRUE

\* column ILIKE '%query%': NULL never matches; a stored text matches when the
\* query occurs in it
RECURSIVE IsInfix(_, _)
IsInfix(q, t) ==
  IF Len(q) > Len(t) THEN FALSE
  ELSE IF SubSeq(t, 1, Len(q)) = q THEN TRUE
  ELSE IsInfix(q, Tail(t))

ilike(column, query) == column # None /\ IsInfix(lower(query), lower(column))

\* memory_crud.search without the filter on is_deleted
search_with_deleted(rows, user_id, query) ==
  LET hit(i) == /\ rows[i].user_id = user_id
                /\ \/ ilike(rows[i].description, query)
                   \/ ilike(rows[i].title, query)
                   \/ \E j \in 1..Len(rows[i].labels) :
                        rows[i].labels[j] = lower(query)
  IN {i \in 1..Len(rows) : hit(i)}

\* indices of the rows memory_crud.search returns, newest first
search(rows, user_id, query) ==
  LET hit(i) == /\ rows[i].user_id = user_id
                /\ ~rows[i].is_deleted
                /\ \/ ilike(rows[i].description, query)
                   \/ ilike(rows[i].title, query)
                   \/ \E j \in 1..Len(rows[i].labels) :
                        rows[i].labels[j] = lower(query)
  IN {i \in 1..Len(rows) : hit(i)}

\* Memory.to_dict merged into meta by dict.update
MetaUpdate(meta, row) ==
  [k \in DOMAIN meta \cup {"id", "user_id", "image_url", "description",
                           "title", "labels", "is_deleted"} |->
     CASE k = "id"          -> row.id
       [] k = "user_id"     -> row.user_id
       [] k = "image_url"   -> row.image_url
       [] k = "description" -> row.description
       [] k = "title"       -> row.title
       [] k = "labels"      -> row.labels
       [] k = "is_deleted"  -> row.is_deleted
       [] OTHER             -> meta[k]]

(***************************************************************************)
(* The database as one request sees it: the three tables, the server clock *)
(* in seconds, and what goes wrong in this request.  `tick` is how far the *)
(* clock moves after the request's first insert; `error` is the exception  *)
(* a failed commit has raised.                                             *)
(***************************************************************************)
\* where a database call of the turn may fail
FaultPoints == {"none", "inbound", "outbound"}

Session(mem, msgs, usrs, fault, now, tick) ==
  [memories |-> mem, messages |-> msgs, users |-> usrs,
   fault |-> fault, now |-> now, tick |-> tick, error |-> "none"]

(***************************************************************************)
(* MessageCRUD.                                                            *)
(***************************************************************************)
\* Message(...) row; timestamp is the column's server default, now()
NewMessage(user_id, msg_id, sender, intent, content, meta, now) ==
  [user_id   |-> user_id,
   msgId     |-> msg_id,
   sender    |-> sender,
   intent    |-> intent,
   content   |-> content,
   meta      |-> meta,
   timestamp |-> now]

\* message_crud.create: add, commit, refresh.  The commit that the fault of
\* the session names (the user's message, or the assistant's) raises instead.
create(db, user_id, msg_id, sender, intent, content, meta) ==
  IF \/ db.fault = "inbound" /\ sender = "user"
     \/ db.fault = "outbound" /\ sender = "ai"
  THEN [db EXCEPT !.error = "DatabaseError"]
  ELSE [db EXCEPT !.messages = Append(@, NewMessage(user_id, msg_id, sender, intent,
                                                    content, meta, db.now)),
                  !.now = @ + db.tick,
                  !.tick = 0]

create_user_message(db, user_id, content, intent, meta) ==
  create(db, user_id, generate_message_id("user", Len(db.messages) + 1),
         "user", intent, content, meta)

(***************************************************************************)
(* ChatService.process_message.  A request is [text, imageUrl, memoryId].  *)
(* A handler's outcome is the database it leaves and either the response   *)
(* it returns or the exception it raises.                                  *)
(***************************************************************************)
Returned(db, ai_response) ==
  [raised |-> "none", response |-> ai_response, db |-> db]

Raised(db, exception) ==
  [raised |-> exception, response |-> None, db |-> db]

\* the end of every handler: save the assistant's message, return the response
Reply(db, user_id, ai_response) ==
  LET saved == create(db, user_id, ai_response.msgId, "ai", ai_response.intent,
                      ai_response.content, ai_response.meta)
  IN IF saved.error # "none"
     THEN Raised(saved, saved.error)
     ELSE Returned(saved, ai_response)

\* the number of the id the handler's generate_response draws
NextId(db) == Len(db.messages) + 1

_handle_normal_chat(db, user_id, request) ==
  LET user_data == Put(EmptyDict, "current_name", db.users[user_id].name)
  IN Reply(db, user_id, generate_response("chat", user_data, EmptyDict, NextId(db)))

\* _handle_save_memory that tests `imageUrl is not None`
_handle_save_memory_not_none(db, user_id, request) ==
  IF request.imageUrl # None
  THEN LET memory == [id |-> MemIdNames[Len(db.memories) + 1], user_id |-> user_id,
                      image_url |-> request.imageUrl, description |-> None,
                      title |-> None, labels |-> <<>>, is_deleted |-> FALSE]
       IN Reply([db EXCEPT !.memories = Append(@, memory)], user_id,
                WithMeta(WithMeta(generate_response("add_description", EmptyDict,
                                                    EmptyDict, NextId(db)),
                                  "memoryId", memory.id),
                         "imageUrl", request.imageUrl))
  ELSE Reply(db, user_id,
             generate_response("save_memory", EmptyDict, EmptyDict, NextId(db)))

_handle_save_memory(db, user_id, request) ==
  IF Truthy(request.imageUrl)
  THEN LET memory  == NewMemory(db.memories, user_id, request.imageUrl, None, None, None)
           context == Put(Put(EmptyDict, "memory_id", memory.id),
                          "image_url", request.imageUrl)
       IN Reply([db EXCEPT !.memories = Append(@, memory)], user_id,
                WithMeta(WithMeta(generate_response("add_description", EmptyDict,
                                                    context, NextId(db)),
                                  "memoryId", memory.id),
                         "imageUrl", request.imageUrl))
  ELSE Reply(db, user_id,
             generate_response("save_memory", EmptyDict, EmptyDict, NextId(db)))

_handle_search_memory(db, user_id, request) ==
  LET found       == search(db.memories, user_id, lower(request.text))
      ai_response == generate_response("search_memory", EmptyDict, EmptyDict, NextId(db))
  IN IF found # {}
     THEN LET first == CHOOSE i \in found : \A j \in found : j <= i
          IN Reply(db, user_id,
                   [ai_response EXCEPT
                      !.meta = MetaUpdate(ai_response.meta, db.memories[first])])
     ELSE Reply(db, user_id, ai_response)

\* _handle_delete_memory that soft-deletes the memory the request names
_handle_delete_memory_deletes(db, user_id, request) ==
  LET ai_response == generate_response("confirm_delete", EmptyDict, EmptyDict, NextId(db))
      i           == get_by_id(db.memories, request.memoryId, FALSE)
  IN IF ~Truthy(request.memoryId)
     THEN Reply(db, user_id, ai_response)
     ELSE Reply(IF i = 0 THEN db
                ELSE [db EXCEPT !.memories[i].is_deleted = TRUE],
                user_id, WithMeta(ai_response, "memoryId", request.memoryId))

_handle_delete_memory(db, user_id, request) ==
  LET ai_response == generate_response("confirm_delete", EmptyDict, EmptyDict, NextId(db))
  IN IF ~Truthy(request.memoryId)
     THEN Reply(db, user_id, ai_response)
     ELSE Reply(db, user_id, WithMeta(ai_response, "memoryId", request.memoryId))

\* _handle_edit_memory that takes the request's memoryId as it comes
_handle_edit_memory_unchecked(db, user_id, request) ==
  LET ai_response == generate_response("edit_memory", EmptyDict, EmptyDict, NextId(db))
  IN IF ~Truthy(request.memoryId)
     THEN Reply(db, user_id, ai_response)
     ELSE Reply(db, user_id, WithMeta(ai_response, "memoryId", request.memoryId))

_handle_edit_memory(db, user_id, request) ==
  LET ai_response == generate_response("edit_memory", EmptyDict, EmptyDict, NextId(db))
  IN IF ~Truthy(request.memoryId)
     THEN Reply(db, user_id, ai_response)
     ELSE IF get_by_id(db.memories, request.memoryId, FALSE) = 0
          THEN Raised(db, "MemoryNotFoundError")
          ELSE Reply(db, user_id, WithMeta(ai_response, "memoryId", request.memoryId))

\* _handle_update_name that stores the text of the message as the new name
_handle_update_name_stores(db, user_id, request) ==
  LET user_data == Put(EmptyDict, "current_name", db.users[user_id].name)
  IN Reply([db EXCEPT !.users[user_id].name = request.text], user_id,
           generate_response("update_name", user_data, EmptyDict, NextId(db)))

_handle_update_name(db, user_id, request) ==
  LET user_data == Put(EmptyDict, "current_name", db.users[user_id].name)
  IN Reply(db, user_id,
           generate_response("update_name", user_data, EmptyDict, NextId(db)))

_handle_update_avatar(db, user_id, request) ==
  Reply(db, user_id,
        generate_response("update_avatar", EmptyDict, EmptyDict, NextId(db)))

\* _handle_update_password that takes the message for the new password and
\* answers that the password is updated
_handle_update_password_completes(db, user_id, request) ==
  Reply(db, user_id,
        generate_response("password_updated", EmptyDict, EmptyDict, NextId(db)))

_handle_update_password(db, user_id, request) ==
  Reply(db, user_id,
        generate_response("update_password", EmptyDict, EmptyDict, NextId(db)))

\* Dispatch that rejects an intent it has no branch for
Dispatch_strict(intent, db, user_id, request) ==
  CASE intent = "save_memory"     -> _handle_save_memory(db, user_id, request)
    [] intent = "search_memory"   -> _handle_search_memory(db, user_id, request)
    [] intent = "delete_memory"   -> _handle_delete_memory(db, user_id, request)
    [] intent = "edit_memory"     -> _handle_edit_memory(db, user_id, request)
    [] intent = "update_name"     -> _handle_update_name(db, user_id, request)
    [] intent = "update_avatar"   -> _handle_update_avatar(db, user_id, request)
    [] intent = "update_password" -> _handle_update_password(db, user_id, request)
    [] intent = "chat"            -> _handle_normal_chat(db, user_id, request)
    [] OTHER                      -> Raised(db, "ValueError")

\* the if / elif chain on the detected intent
Dispatch(intent, db, user_id, request) ==
  CASE intent = "save_memory"     -> _handle_save_memory(db, user_id, request)
    [] intent = "search_memory"   -> _handle_search_memory(db, user_id, request)
    [] intent = "delete_memory"   -> _handle_delete_memory(db, user_id, request)
    [] intent = "edit_memory"     -> _handle_edit_memory(db, user_id, request)
    [] intent = "update_name"     -> _handle_update_name(db, user_id, request)
    [] intent = "update_avatar"   -> _handle_update_avatar(db, user_id, request)
    [] intent = "update_password" -> _handle_update_password(db, user_id, request)
    [] OTHER                      -> _handle_normal_chat(db, user_id, request)

\* process_message that classifies the message before it saves it
process_message_detect_first(db, user_id, request, current_context) ==
  LET intent == detect_intent(request.text, current_context)
      out    == Dispatch(intent, db, user_id, request)
  IN [raised |-> out.raised, intent |-> intent, response |-> out.response,
      db |-> out.db]

\* The user's message is saved first, with intent "user" and the request's
\* imageUrl as its meta; then the intent is detected and its handler runs.
process_message(db, user_id, request, current_context) ==
  LET received == create_user_message(db, user_id, request.text, "user",
                                      Put(EmptyDict, "imageUrl", request.imageUrl))
  IN IF received.error # "none"
     THEN [raised |-> received.error, intent |-> None, response |-> None,
           db |-> received]
     ELSE LET intent == detect_intent(request.text, current_context)
              out    == Dispatch(intent, received, user_id, request)
          IN [raised |-> out.raised, intent |-> intent,
              response |-> out.response, db |-> out.db]

(***************************************************************************)
(* api/chat.py: the context store and its endpoints.                       *)
(***************************************************************************)
\* conversation_contexts.get(user_id, {})
Get(store, user_id) ==
  IF user_id \in DOMAIN store THEN store[user_id] ELSE EmptyDict

\* Del that empties the whole store
Del_everyone(store, user_id) == EmptyDict

\* del conversation_contexts[user_id]
Del(store, user_id) == [x \in DOMAIN store \ {user_id} |-> store[x]]

\* UpdateContext that leaves an expected_intent already in the context alone
UpdateContext_keep_expected(store, user_id, user_context, request, response_intent) ==
  IF response_intent \in ContinuationIntents
  THEN LET armed == IF "expected_intent" \in DOMAIN user_context
                    THEN user_context
                    ELSE Put(user_context, "expected_intent", response_intent)
       IN Put(store, user_id,
              IF Truthy(request.memoryId)
              THEN Put(armed, "memory_id", request.memoryId)
              ELSE armed)
  ELSE IF response_intent \in CompletionIntents
  THEN IF user_id \in DOMAIN store
       THEN [x \in DOMAIN store \ {user_id} |-> store[x]] ELSE store
  ELSE store

\* UpdateContext that empties the entry of a completed flow but keeps its key
UpdateContext_keep_entry(store, user_id, user_context, request, response_intent) ==
  IF response_intent \in ContinuationIntents
  THEN LET armed == Put(user_context, "expected_intent", response_intent)
       IN Put(store, user_id,
              IF Truthy(request.memoryId)
              THEN Put(armed, "memory_id", request.memoryId)
              ELSE armed)
  ELSE IF response_intent \in CompletionIntents
  THEN IF user_id \in DOMAIN store THEN Put(store, user_id, EmptyDict) ELSE store
  ELSE store

\* UpdateContext that writes the context back after every turn
UpdateContext_always_store(store, user_id, user_context, request, response_intent) ==
  IF response_intent \in ContinuationIntents
  THEN LET armed == Put(user_context, "expected_intent", response_intent)
       IN Put(store, user_id,
              IF Truthy(request.memoryId)
              THEN Put(armed, "memory_id", request.memoryId)
              ELSE armed)
  ELSE IF response_intent \in CompletionIntents
  THEN IF user_id \in DOMAIN store
       THEN [x \in DOMAIN store \ {user_id} |-> store[x]] ELSE store
  ELSE Put(store, user_id, user_context)

\* UpdateContext that notes the memory of the request after every turn
UpdateContext_notes_memory(store, user_id, user_context, request, response_intent) ==
  IF response_intent \in ContinuationIntents
  THEN LET armed == Put(user_context, "expected_intent", response_intent)
       IN Put(store, user_id,
              IF Truthy(request.memoryId)
              THEN Put(armed, "memory_id", request.memoryId)
              ELSE armed)
  ELSE IF response_intent \in CompletionIntents
  THEN IF user_id \in DOMAIN store
       THEN [x \in DOMAIN store \ {user_id} |-> store[x]] ELSE store
  ELSE IF Truthy(request.memoryId)
  THEN Put(store, user_id, Put(user_context, "memory_id", request.memoryId))
  ELSE store

\* the "update context" block that follows process_message
UpdateContext(store, user_id, user_context, request, response_intent) ==
  IF response_intent \in ContinuationIntents
  THEN LET armed == Put(user_context, "expected_intent", response_intent)
       IN Put(store, user_id,
              IF Truthy(request.memoryId)
              THEN Put(armed, "memory_id", request.memoryId)
              ELSE armed)
  ELSE IF response_intent \in CompletionIntents
  THEN IF user_id \in DOMAIN store THEN Del(store, user_id) ELSE store
  ELSE store

\* The event loop runs one endpoint call at a time (the endpoints are
\* coroutines that never await): it is Ready for a request, or it holds in
\* `last` the call it has just run until the response has been written out.
\* A request is taken up only when the loop is Ready.
Ready == [op |-> "ready"]

\* len(text) in characters of the words of the model; LongWord is a run of
\* 1995 letters that holds no keyword
LongWord == "x...x"

WordLen(w) ==
  CASE w \in {"save", "Save", "find", "name"} -> 4
    [] w = "hello"                            -> 5
    [] w \in {"memory", "delete", "change"}   -> 6
    [] w = "picture"                          -> 7
    [] w = "password"                         -> 8
    [] w = LongWord                           -> 1995
    [] OTHER                                  -> 1

RECURSIVE CharLen(_)
CharLen(text) ==
  IF text = <<>> THEN 0
  ELSE IF Len(text) = 1 THEN WordLen(text[1])
  ELSE WordLen(Head(text)) + 1 + CharLen(Tail(text))

\* Field(..., min_length=1, max_length=2000) of ChatMessageRequest.text
min_length == 1

max_length == 2000

\* ChatMessageRequest validation that bounds the text from above only
ChatMessageRequest_no_minimum(request) == CharLen(request.text) <= max_length

\* the body parses into a ChatMessageRequest
ChatMessageRequest(request) ==
  min_length <= CharLen(request.text) /\ CharLen(request.text) <= max_length

\* the clock at the start of a request: `gap` seconds after the newest row
LastStamp(msgs) == IF msgs = <<>> THEN 0 ELSE msgs[Len(msgs)].timestamp

\* the status of the HTTP answer: the response, or the HTTPException that
\* `except Exception` makes of whatever the service raised
StatusOf(raised) == IF raised = "none" THEN 200 ELSE 500

\* SendWith that notes the detected intent in the context when the turn fails
SendWith_notes_failure(user_id, request, fault, user_context, out) ==
  /\ Len(out.db.memories) > Len(memories) => Len(out.db.memories) <= MaxMemories
  /\ Len(out.db.messages) <= MaxMessages
  /\ memories' = out.db.memories
  /\ messages' = out.db.messages
  /\ users' = out.db.users
  /\ conversation_contexts' =
       IF out.raised = "none"
       THEN UpdateContext(conversation_contexts, user_id, user_context,
                          request, out.response.intent)
       ELSE Put(conversation_contexts, user_id,
                Put(user_context, "expected_intent", "chat"))
  /\ last' = [op |-> "send", user |-> user_id, request |-> request,
              fault |-> fault, context |-> user_context,
              intent |-> out.intent, ok |-> out.raised = "none",
              raised |-> out.raised, status |-> StatusOf(out.raised),
              response |-> out.response]

\* send_chat_message around a given result of process_message
SendWith(user_id, request, fault, user_context, out) ==
  /\ Len(out.db.memories) > Len(memories) => Len(out.db.memories) <= MaxMemories
  /\ Len(out.db.messages) <= MaxMessages
  /\ memories' = out.db.memories
  /\ messages' = out.db.messages
  /\ users' = out.db.users
  /\ conversation_contexts' =
       IF out.raised = "none"
       THEN UpdateContext(conversation_contexts, user_id, user_context,
                          request, out.response.intent)
       ELSE conversation_contexts
  /\ last' = [op |-> "send", user |-> user_id, request |-> request,
              fault |-> fault, context |-> user_context,
              intent |-> out.intent, ok |-> out.raised = "none",
              raised |-> out.raised, status |-> StatusOf(out.raised),
              response |-> out.response]

\* the request never reaches the endpoint's body: FastAPI answers 422
Rejected(user_id, request, fault) ==
  /\ last' = [op |-> "send", user |-> user_id, request |-> request,
              fault |-> fault, context |-> Get(conversation_contexts, user_id),
              intent |-> None, ok |-> FALSE,
              raised |-> "RequestValidationError", status |-> 422,
              response |-> None]
  /\ UNCHANGED <<conversation_contexts, memories, messages, users>>

\* gap, tick: seconds the clock has moved since the newest stored message,
\* and moves between the two inserts of the turn
send_chat_message(user_id, request, fault, gap, tick) ==
  IF ~ChatMessageRequest(request)
  THEN Rejected(user_id, request, fault)
  ELSE LET user_context == Get(conversation_contexts, user_id)
           db == Session(memories, messages, users, fault,
                         LastStamp(messages) + gap, tick)
       IN SendWith(user_id, request, fault, user_context,
                   process_message(db, user_id, request, user_context))

get_conversation_context(user_id) ==
  /\ last' = [op |-> "context", user |-> user_id,
              context |-> Get(conversation_contexts, user_id)]
  /\ UNCHANGED <<conversation_contexts, memories, messages, users, tasks, call>>

\* clear_conversation_context that deletes without looking: the KeyError of
\* a user without an entry fails the call
clear_conversation_context_strict(user_id) ==
  /\ conversation_contexts' =
       IF user_id \in DOMAIN conversation_contexts
       THEN Del(conversation_contexts, user_id)
       ELSE conversation_contexts
  /\ last' = [op |-> "clear", user |-> user_id,
              success |-> user_id \in DOMAIN conversation_contexts]
  /\ UNCHANGED <<memories, messages, users, tasks, call>>

clear_conversation_context(user_id) ==
  /\ conversation_contexts' =
       IF user_id \in DOMAIN conversation_contexts
       THEN Del(conversation_contexts, user_id)
       ELSE conversation_contexts
  /\ last' = [op |-> "clear", user |-> user_id, success |-> TRUE]
  /\ UNCHANGED <<memories, messages, users, tasks, call>>

(***************************************************************************)
(* The program: requests arrive in any order, from any user.               *)
(***************************************************************************)
\* the texts users send in a turn
TurnTexts == { <<"hello">>, <<"Save", "memory">>, <<"find", "memory">>,
               <<"delete", "memory">>, <<"change", "memory">>,
               <<"change", "name">>, <<"change", "picture">>,
               <<"change", "password">> }

Requests == [text : TurnTexts, imageUrl : {None, ""} \cup ImageUrls,
             memoryId : {None, ""} \cup MemIds]

Idle == [pc |-> "idle"]

\* security.get_password_hash: a digest that tells passwords apart
get_password_hash(password) == <<"hash", password>>

\* the two registered users
InitUsers ==
  [u \in Users |->
     [name          |-> IF u = "u1" THEN "Ann" ELSE "Bob",
      avatar_url    |-> None,
      password_hash |-> get_password_hash(<<"secret", u>>)]]

Init ==
  /\ conversation_contexts = EmptyDict
  /\ memories = <<>>
  /\ messages = <<>>
  /\ users = InitUsers
  /\ tasks = EmptyDict
  /\ last = Ready
  /\ call = Idle

\* a turn of the conversation; the clock has moved on since the turn before
Send ==
  /\ last = Ready
  /\ Len(messages) + 2 <= MaxMessages
  /\ \E user_id \in Users, request \in Requests :
       send_chat_message(user_id, request, "none", 1, 0)
  /\ UNCHANGED <<tasks, call>>

GetContext ==
  /\ last = Ready
  /\ \E user_id \in Users : get_conversation_context(user_id)

ClearContext ==
  /\ last = Ready
  /\ \E user_id \in Users : clear_conversation_context(user_id)

\* the response of the call in `last` has been written to the client
Respond ==
  /\ last # Ready
  /\ last' = Ready
  /\ UNCHANGED <<conversation_contexts, memories, messages, users, tasks, call>>

Next == Send \/ GetContext \/ ClearContext \/ Respond

Spec == Init /\ [][Next]_vars

(***************************************************************************)
(* send_chat_message with the service stubbed: process_message returns a   *)
(* response of any intent of the enumeration.  No handler of the service   *)
(* produces the intents that end a flow, so the branch of the endpoint     *)
(* that deletes the entry is exercised this way.                           *)
(***************************************************************************)
SendStubbed ==
  /\ last = Ready
  /\ \E user_id \in Users, memoryId \in {None, ""} \cup MemIds, intent \in IntentId :
       SendWith(user_id,
                [text |-> <<"hello">>, imageUrl |-> None, memoryId |-> memoryId],
                "none",
                Get(conversation_contexts, user_id),
                [raised |-> "none", intent |-> None,
                 response |-> generate_response(intent, EmptyDict, EmptyDict, 1),
                 db |-> Session(memories, messages, users, "none", 0, 0)])
  /\ UNCHANGED <<tasks, call>>

NextStubbed == SendStubbed \/ ClearContext \/ Respond

SpecStubbed == Init /\ [][NextStubbed]_vars

(***************************************************************************)
(* detect_intent on its own: every text of at most MaxLen words, with      *)
(* every context dict over the keys expected_intent and memory_id.         *)
(***************************************************************************)
Texts == UNION {[1..n -> Tokens] : n \in 0..MaxLen}

CallContexts ==
  LET withIntent == {Put(EmptyDict, "expected_intent", e) : e \in IntentId}
  IN {EmptyDict} \cup withIntent
     \cup {Put(c, "memory_id", m) : c \in {EmptyDict} \cup withIntent,
                                    m \in {"mem-1", ""}}

InitDetect ==
  /\ conversation_contexts = EmptyDict
  /\ memories = <<>>
  /\ messages = <<>>
  /\ users = InitUsers
  /\ tasks = EmptyDict
  /\ last = Ready
  /\ call \in [pc : {"called"}, text : Texts, current_context : CallContexts]

DetectIntent ==
  /\ call.pc = "called"
  /\ call' = [pc |-> "returned", text |-> call.text,
              current_context |-> call.current_context,
              intent |-> detect_intent(call.text, call.current_context)]
  /\ UNCHANGED <<conversation_contexts, memories, messages, users, tasks, last>>

NextDetect == DetectIntent

SpecDetect == InitDetect /\ [][NextDetect]_vars

(***************************************************************************)
(* One turn on any text: a user whose context is one the store can hold    *)
(* (nothing, or an armed flow with or without a memory id) sends any text  *)
(* of at most MaxLen words.                                                *)
(***************************************************************************)
StoredContexts ==
  LET armed == {Put(EmptyDict, "expected_intent", e) : e \in ContinuationIntents}
  IN armed \cup {Put(c, "memory_id", MemIdNames[1]) : c \in armed}

\* The memories table that goes with a stored context.  add_description is
\* only ever armed by a turn that has saved a memory, and edit_memory with a
\* memory id only by a turn that has found that memory; every other context
\* can be armed while the table is empty.
MemoriesBehind(context) ==
  IF \/ context["expected_intent"] = "add_description"
     \/ context["expected_intent"] = "edit_memory" /\ "memory_id" \in DOMAIN context
  THEN <<NewMemory(<<>>, "u1", "/u/1.jpg", None, None, None)>>
  ELSE <<>>

\* the request of the turn that has armed a stored context
ArmingRequest(context) ==
  LET e == context["expected_intent"] IN
  [text     |-> CASE e \in {"save_memory", "add_description"} -> <<"Save", "memory">>
                  [] e = "edit_memory"     -> <<"change", "memory">>
                  [] e = "confirm_delete"  -> <<"delete", "memory">>
                  [] e = "update_password" -> <<"change", "password">>,
   imageUrl |-> IF e = "add_description" THEN "/u/1.jpg" ELSE None,
   memoryId |-> IF "memory_id" \in DOMAIN context THEN context["memory_id"] ELSE None]

\* The messages table that goes with a stored context: the two messages of
\* the turn that armed it.  The memory an edit refers to was there before
\* that turn; the memory behind add_description was made by it.
MessagesBehind(context) ==
  LET before == IF context["expected_intent"] = "edit_memory"
                THEN MemoriesBehind(context) ELSE <<>>
      db     == Session(before, <<>>, InitUsers, "none", 1, 0)
  IN process_message(db, "u1", ArmingRequest(context), EmptyDict).db.messages

InitTurn ==
  /\ \/ conversation_contexts = EmptyDict /\ memories = <<>> /\ messages = <<>>
     \/ \E c \in StoredContexts :
          /\ conversation_contexts = Put(EmptyDict, "u1", c)
          /\ memories = MemoriesBehind(c)
          /\ messages = MessagesBehind(c)
  /\ users = InitUsers
  /\ tasks = EmptyDict
  /\ last = Ready
  /\ call \in [pc : {"request"}, text : Texts \ {<<>>},
                imageUrl : {None, ""} \cup ImageUrls,
                memoryId : {None, MemIdNames[1]}]

SendTurn ==
  /\ last = Ready
  /\ call.pc = "request"
  /\ send_chat_message("u1", [text |-> call.text, imageUrl |-> call.imageUrl,
                              memoryId |-> call.memoryId], "none", 1, 0)
  /\ call' = [call EXCEPT !.pc = "sent"]
  /\ UNCHANGED tasks

NextTurn == SendTurn

SpecTurn == InitTurn /\ [][NextTurn]_vars

(***************************************************************************)
(* Turns that name a memory, next to the memory endpoints that create and  *)
(* delete memories (api/memory.py), with a database that may fail.         *)
(***************************************************************************)
\* POST /memory/
create_memory(user_id, image_url) ==
  /\ Len(memories) < MaxMemories
  /\ memories' = Append(memories, NewMemory(memories, user_id, image_url,
                                            None, None, None))
  /\ last' = [op |-> "create_memory", user |-> user_id]
  /\ UNCHANGED <<conversation_contexts, messages, users, tasks, call>>

user_owns_memory(rows, user_id, memory_id) ==
  LET i == get_by_id(rows, memory_id, FALSE)
  IN i # 0 /\ rows[i].user_id = user_id

\* memory_crud.delete: the photo only, or the whole memory (soft delete)
delete(rows, memory_id, delete_type) ==
  LET i == get_by_id(rows, memory_id, TRUE)
  IN IF i = 0 THEN rows
     ELSE IF delete_type = "photo"
          THEN [rows EXCEPT ![i].image_url = None]
          ELSE [rows EXCEPT ![i].is_deleted = TRUE]

\* DELETE /memory/{memory_id}: 403 unless the user owns the memory
delete_memory(user_id, memory_id, delete_type) ==
  /\ memories' = IF user_owns_memory(memories, user_id, memory_id)
                 THEN delete(memories, memory_id, delete_type)
                 ELSE memories
  /\ last' = [op |-> "delete_memory", user |-> user_id, memory_id |-> memory_id,
              ok |-> user_owns_memory(memories, user_id, memory_id)]
  /\ UNCHANGED <<conversation_contexts, messages, users, tasks, call>>

MemoryTexts == { <<"hello">>, <<"change", "memory">>, <<"delete", "memory">> }

CreateMemory ==
  /\ last = Ready
  /\ \E user_id \in Users, image_url \in ImageUrls : create_memory(user_id, image_url)

DeleteMemory ==
  /\ last = Ready
  /\ \E user_id \in Users, memory_id \in MemIds, delete_type \in {"photo", "memory"} :
       delete_memory(user_id, memory_id, delete_type)

SendAboutMemory ==
  /\ last = Ready
  /\ Len(messages) + 2 <= MaxMessages
  /\ \E user_id \in Users, text \in MemoryTexts,
        memoryId \in {None, ""} \cup MemIds, fault \in FaultPoints :
       send_chat_message(user_id,
                         [text |-> text, imageUrl |-> None, memoryId |-> memoryId],
                         fault, 1, 0)
  /\ UNCHANGED <<tasks, call>>

NextMemory == CreateMemory \/ DeleteMemory \/ SendAboutMemory \/ Respond

SpecMemory == Init /\ [][NextMemory]_vars

(***************************************************************************)
(* One request of any kind: a body that may not pass validation, sent by a *)
(* user in any stored context, against a database that may fail.           *)
(***************************************************************************)
\* bodies at and beyond the limits of the text field: no text, 1995 and
\* 2000 characters (accepted), 2001 characters (too long)
EdgeTexts == { <<>>, <<LongWord>>, <<LongWord, "save">>, <<LongWord, "hello">> }

InitRequest ==
  /\ \/ conversation_contexts = EmptyDict /\ memories = <<>> /\ messages = <<>>
     \/ \E c \in StoredContexts :
          /\ conversation_contexts = Put(EmptyDict, "u1", c)
          /\ memories = MemoriesBehind(c)
          /\ messages = MessagesBehind(c)
  /\ users = InitUsers
  /\ tasks = EmptyDict
  /\ last = Ready
  /\ call \in [pc : {"request"}, text : TurnTexts \cup EdgeTexts,
                imageUrl : {None, ""} \cup ImageUrls,
                memoryId : {None, MemIdNames[1]},
                fault : FaultPoints]

SendRequest ==
  /\ last = Ready
  /\ call.pc = "request"
  /\ send_chat_message("u1", [text |-> call.text, imageUrl |-> call.imageUrl,
                              memoryId |-> call.memoryId], call.fault, 1, 0)
  /\ call' = [call EXCEPT !.pc = "sent"]
  /\ UNCHANGED tasks

NextRequest == SendRequest

SpecRequest == InitRequest /\ [][NextRequest]_vars

(***************************************************************************)
(* Requests in flight.  The server accepts a request and resolves its      *)
(* dependencies (get_current_user, get_db: plain functions, run in the     *)
(* thread pool) while other requests are being served; the body of         *)
(* send_chat_message then runs on the event loop, statement by statement:  *)
(* the context read (line 49), process_message (52-54), the context update *)
(* (57-66).                                                                *)
(***************************************************************************)
TaskIds == 1..MaxTasks

TaskRequests == [text : { <<"hello">>, <<"Save", "memory">>, <<"change", "password">> },
                 imageUrl : {None}, memoryId : {None, MemIdNames[1]}]

\* the pcs at which a coroutine is inside the body of the endpoint
InBody == {"read", "processed"}

\* LoopFree of a server that runs the endpoint's body in its thread pool
LoopFree_threads(running) == TRUE

\* `async def send_chat_message` has no await in its body: once the event
\* loop has entered the body of one call it runs it to its return, so the
\* body of another call starts only when no call is inside it
LoopFree(running) == \A t \in DOMAIN running : running[t].pc \notin InBody

Accept(t) ==
  /\ t \notin DOMAIN tasks
  /\ \E user_id \in Users, request \in TaskRequests :
       tasks' = Put(tasks, t, [pc |-> "accepted", user |-> user_id,
                               request |-> request, user_context |-> EmptyDict,
                               intent |-> None])
  /\ UNCHANGED <<conversation_contexts, memories, messages, users, last, call>>

\* user_context = conversation_contexts.get(current_user.id, {})
ReadContext(t) ==
  /\ t \in DOMAIN tasks
  /\ tasks[t].pc = "accepted"
  /\ LoopFree(tasks)
  /\ tasks' = [tasks EXCEPT ![t].pc = "read",
                            ![t].user_context = Get(conversation_contexts, tasks[t].user)]
  /\ UNCHANGED <<conversation_contexts, memories, messages, users, last, call>>

\* response = chat_service.process_message(...); an exception ends the call
Process(t) ==
  /\ t \in DOMAIN tasks
  /\ tasks[t].pc = "read"
  /\ \E out \in {process_message(Session(memories, messages, users, "none",
                                         LastStamp(messages) + 1, 0),
                                 tasks[t].user, tasks[t].request,
                                 tasks[t].user_context)} :
       /\ Len(out.db.memories) > Len(memories) => Len(out.db.memories) <= MaxMemories
       /\ Len(out.db.messages) <= MaxMessages
       /\ memories' = out.db.memories
       /\ messages' = out.db.messages
       /\ users' = out.db.users
       /\ tasks' = [tasks EXCEPT ![t].pc = IF out.raised = "none"
                                           THEN "processed" ELSE "done",
                                 ![t].intent = IF out.raised = "none"
                                               THEN out.response.intent ELSE None]
  /\ UNCHANGED <<conversation_contexts, last, call>>

\* the update of the store with the context read at the start, and the return
WriteContext(t) ==
  /\ t \in DOMAIN tasks
  /\ tasks[t].pc = "processed"
  /\ conversation_contexts' =
       UpdateContext(conversation_contexts, tasks[t].user, tasks[t].user_context,
                     tasks[t].request, tasks[t].intent)
  /\ tasks' = [tasks EXCEPT ![t].pc = "done"]
  /\ UNCHANGED <<memories, messages, users, last, call>>

AcceptAny == \E t \in TaskIds : Accept(t)

ReadAny == \E t \in TaskIds : ReadContext(t)

ProcessAny == \E t \in TaskIds : Process(t)

WriteAny == \E t \in TaskIds : WriteContext(t)

NextTasks == AcceptAny \/ ReadAny \/ ProcessAny \/ WriteAny

SpecTasks == Init /\ [][NextTasks]_vars

(***************************************************************************)
(* Turns about the profile, next to the endpoints that change a profile    *)
(* (api/auth.py: POST /update-name, POST /update-password).                *)
(***************************************************************************)
\* the endpoint answers 400 when the body has no newName
update_user_name(user_id, new_name) ==
  /\ users' = IF Truthy(new_name)
              THEN [users EXCEPT ![user_id].name = new_name]
              ELSE users
  /\ last' = [op |-> "update_name", user |-> user_id, ok |-> Truthy(new_name)]
  /\ UNCHANGED <<conversation_contexts, memories, messages, tasks, call>>

\* the endpoint answers 400 when the body has no newPassword
update_user_password(user_id, new_password) ==
  /\ users' = IF Truthy(new_password)
              THEN [users EXCEPT ![user_id].password_hash = get_password_hash(new_password)]
              ELSE users
  /\ last' = [op |-> "update_password", user |-> user_id, ok |-> Truthy(new_password)]
  /\ UNCHANGED <<conversation_contexts, memories, messages, tasks, call>>

ProfileTexts == { <<"hello">>, <<"change", "name">>, <<"change", "picture">>,
                  <<"change", "password">> }

UpdateName ==
  /\ last = Ready
  /\ \E user_id \in Users, new_name \in {None, "", "Cy"} :
       update_user_name(user_id, new_name)

UpdatePassword ==
  /\ last = Ready
  /\ \E user_id \in Users, new_password \in {None, "pw2"} :
       update_user_password(user_id, new_password)

SendAboutProfile ==
  /\ last = Ready
  /\ Len(messages) + 2 <= MaxMessages
  /\ \E user_id \in Users, text \in ProfileTexts, imageUrl \in {None} \cup ImageUrls :
       send_chat_message(user_id,
                         [text |-> text, imageUrl |-> imageUrl, memoryId |-> None],
                         "none", 1, 0)
  /\ UNCHANGED <<tasks, call>>

NextProfile == UpdateName \/ UpdatePassword \/ SendAboutProfile \/ Respond

SpecProfile == Init /\ [][NextProfile]_vars

(***************************************************************************)
(* The history of a conversation (GET /history).  The timestamp of a row   *)
(* is the clock of the database at the insert, in whole seconds: the two   *)
(* rows of a turn, and the rows of turns that follow each other closely,   *)
(* can carry the same timestamp.                                           *)
(***************************************************************************)
\* Message.to_dict
to_dict(row) ==
  [msgId     |-> row.msgId,
   sender    |-> row.sender,
   intent    |-> row.intent,
   content   |-> row.content,
   meta      |-> row.meta,
   memory_id |-> None,
   timestamp |-> row.timestamp]

\* the orders in which ORDER BY timestamp DESC can return the rows: rows of
\* one timestamp come in whatever order the database produces
Orderings(rows) ==
  { p \in [1..Len(rows) -> 1..Len(rows)] :
      /\ \A i, j \in 1..Len(rows) : i # j => p[i] # p[j]
      /\ \A i, j \in 1..Len(rows) :
           i < j => rows[p[i]].timestamp >= rows[p[j]].timestamp }

Min(a, b) == IF a <= b THEN a ELSE b

\* filter, order_by(timestamp.desc()), limit, all, and then reversed
get_conversation_history(msgs, user_id, limit) ==
  LET rows == SelectSeq(msgs, LAMBDA m : m.user_id = user_id)
      k    == Min(limit, Len(rows))
  IN { [i \in 1..k |-> to_dict(rows[p[k + 1 - i]])] : p \in Orderings(rows) }

get_chat_history(user_id, limit) ==
  /\ \E result \in get_conversation_history(messages, user_id, limit) :
       last' = [op |-> "history", user |-> user_id, limit |-> limit,
                messages |-> result]
  /\ UNCHANGED <<conversation_contexts, memories, messages, users, tasks, call>>

HistoryTexts == { <<"hello">>, <<"find", "memory">> }

Limits == 1..MaxMessages

\* turns that follow each other within the second or not, and whose two
\* inserts fall into one second or not
SendTimed ==
  /\ last = Ready
  /\ Len(messages) + 2 <= MaxMessages
  /\ \E user_id \in Users, text \in HistoryTexts, gap \in {0, 1}, tick \in {0, 1} :
       send_chat_message(user_id,
                         [text |-> text, imageUrl |-> None, memoryId |-> None],
                         "none", gap, tick)
  /\ UNCHANGED <<tasks, call>>

GetHistory ==
  /\ last = Ready
  /\ \E user_id \in Users, limit \in Limits : get_chat_history(user_id, limit)

NextHistory == SendTimed \/ GetHistory \/ Respond

SpecHistory == Init /\ [][NextHistory]_vars

(***************************************************************************)
(* MockLLMService.generate_response on its own: a caller renders the       *)
(* response of any intent, with or without user data and context, and may  *)
(* add a field to the meta of the response it got, as the handlers do.     *)
(* call.held is the meta of the response the caller got from the call      *)
(* before, which the caller still holds.                                   *)
(***************************************************************************)
\* a name is any text the user chose, the text of a placeholder included
Names == {"Ann", "{new_name}"}

UserDatas == {EmptyDict} \cup {Put(EmptyDict, "current_name", v) : v \in Names}

RenderContexts ==
  {EmptyDict, Put(EmptyDict, "new_name", "Cy"),
   Put(EmptyDict, "memory_id", MemIdNames[1])}

InitRender ==
  /\ conversation_contexts = EmptyDict
  /\ memories = <<>>
  /\ messages = <<>>
  /\ users = InitUsers
  /\ tasks = EmptyDict
  /\ last = Ready
  /\ call = [pc |-> "render", n |-> 1, held |-> EmptyDict]

Render ==
  /\ call.n <= MaxMessages
  /\ \E intent \in IntentId, user_data \in UserDatas, context \in RenderContexts :
       last' = [op |-> "render", intent |-> intent, user_data |-> user_data,
                context |-> context,
                response |-> generate_response(intent, user_data, context, call.n)]
  /\ call' = [call EXCEPT !.n = @ + 1,
                          !.held = IF last = Ready THEN EmptyDict
                                   ELSE last.response.meta]
  /\ UNCHANGED <<conversation_contexts, memories, messages, users, tasks>>

\* ai_response["meta"]["memoryId"] = ..., on the response the caller holds
Augment ==
  /\ last # Ready
  /\ last.op = "render"
  /\ \E memory_id \in MemIds :
       last' = [last EXCEPT !.op = "augmented",
                            !.response = WithMeta(@, "memoryId", memory_id)]
  /\ UNCHANGED <<conversation_contexts, memories, messages, users, tasks, call>>

NextRender == Render \/ Augment

SpecRender == InitRender /\ [][NextRender]_vars

(***************************************************************************)
(* Message ids.  Each id is drawn at some millisecond of the clock with    *)
(* some value of secrets.token_hex(4), and the message is stored under it; *)
(* calls that follow each other can fall into one millisecond.             *)
(***************************************************************************)
\* two of the 2^32 values of secrets.token_hex(4)
TokenHex == {"0000000a", "0000000b"}

Prefixes == {"user", "ai"}

InitIds ==
  /\ conversation_contexts = EmptyDict
  /\ memories = <<>>
  /\ messages = <<>>
  /\ users = InitUsers
  /\ tasks = EmptyDict
  /\ last = Ready
  /\ call = [pc |-> "ids", clock |-> 0]

\* the clock reaches the next millisecond
Tick ==
  /\ call.clock < MaxMessages
  /\ call' = [call EXCEPT !.clock = @ + 1]
  /\ UNCHANGED <<conversation_contexts, memories, messages, users, tasks, last>>

\* a message of a user, or a response to one, is given its id and stored:
\* create_user_message, and generate_response followed by message_crud.create
StoreMessage ==
  /\ Len(messages) < MaxMessages
  /\ \E user_id \in {"u1"}, prefix \in Prefixes, random_part \in TokenHex :
       LET n  == <<call.clock, random_part>>
           db == Session(memories, messages, users, "none", 0, 0)
           ai_response == generate_response("update_avatar", EmptyDict, EmptyDict, n)
           stored == IF prefix = "ai"
                     THEN create(db, user_id, ai_response.msgId, "ai",
                                 ai_response.intent, ai_response.content,
                                 ai_response.meta)
                     ELSE create(db, user_id, generate_message_id("user", n),
                                 "user", "user", <<"hello">>, EmptyDict)
       IN /\ messages' = stored.messages
          /\ last' = [op |-> "store", user |-> user_id,
                      msgId |-> messages'[Len(messages')].msgId]
  /\ UNCHANGED <<conversation_contexts, memories, users, tasks, call>>

NextIds == Tick \/ StoreMessage

SpecIds == InitIds /\ [][NextIds]_vars

(***************************************************************************)
(* Search turns over memories that carry words: POST /memory/ stores a     *)
(* memory with a description or a title, DELETE /memory/{id} removes one.  *)
(***************************************************************************)
MaxFound == 2        \* memory rows with words that can exist

\* helpers.extract_labels_from_text: the distinct lower-case words of more
\* than three characters that are no stop words (no word of the texts here
\* is one), as list(set(...)) orders them, which is any order
extract_labels_from_text(text) ==
  LET keywords == {Lower(text[i]) : i \in {j \in 1..Len(text) : WordLen(text[j]) > 3}}
      orders   == { p \in [1..Cardinality(keywords) -> keywords] :
                      \A i, j \in 1..Cardinality(keywords) : i # j => p[i] # p[j] }
  IN { SubSeq(p, 1, Cardinality(keywords)) : p \in orders }

\* POST /memory/ with a description or a title: memory_crud.create takes the
\* labels from the description when the body has a description and no labels
create_memory_described(user_id, description, title) ==
  /\ Len(memories) < MaxFound
  /\ \E labels \in IF description # None
                   THEN extract_labels_from_text(description)
                   ELSE {<<>>} :
       memories' = Append(memories, NewMemory(memories, user_id, None,
                                              description, title, labels))
  /\ last' = [op |-> "create_memory", user |-> user_id]
  /\ UNCHANGED <<conversation_contexts, messages, users, tasks, call>>

\* what the bodies of POST /memory/ say: no words, the words of the search
\* message as the description, or as part of a title in capitals
MemoryWords ==
  << [description |-> None, title |-> None],
     [description |-> <<"find", "memory">>, title |-> None],
     [description |-> None, title |-> <<"Save", "find", "memory">>] >>

CreateDescribed ==
  /\ last = Ready
  /\ \E user_id \in Users, k \in 1..Len(MemoryWords) :
       create_memory_described(user_id, MemoryWords[k].description,
                               MemoryWords[k].title)

DeleteFound ==
  /\ last = Ready
  /\ \E user_id \in Users, i \in 1..Len(memories) :
       delete_memory(user_id, memories[i].id, "memory")

SearchTexts == { <<"find", "memory">>, <<"hello">> }

SendSearch ==
  /\ last = Ready
  /\ Len(messages) + 2 <= MaxMessages
  /\ \E user_id \in Users, text \in SearchTexts :
       send_chat_message(user_id,
                         [text |-> text, imageUrl |-> None, memoryId |-> None],
                         "none", 1, 0)
  /\ UNCHANGED <<tasks, call>>

NextSearch == CreateDescribed \/ DeleteFound \/ SendSearch \/ Respond

SpecSearch == Init /\ [][NextSearch]_vars

(***************************************************************************)
(* Turns about memories that exist: a memory is stored through             *)
(* POST /memory/ or by a save turn, and the users then ask to delete or    *)
(* edit it and answer the prompt.                                          *)
(***************************************************************************)
KeepTexts == { <<"hello">>, <<"Save", "memory">>, <<"delete", "memory">>,
               <<"change", "memory">> }

SendAboutKept ==
  /\ last = Ready
  /\ Len(messages) + 2 <= MaxMessages
  /\ \E user_id \in Users, text \in KeepTexts, imageUrl \in {None} \cup ImageUrls,
        memoryId \in {None} \cup MemIds :
       send_chat_message(user_id,
                         [text |-> text, imageUrl |-> imageUrl, memoryId |-> memoryId],
                         "none", 1, 0)
  /\ UNCHANGED <<tasks, call>>

NextKeep == CreateMemory \/ SendAboutKept \/ Respond

SpecKeep == Init /\ [][NextKeep]_vars

(***************************************************************************)
(* Properties of detect_intent, checked under SpecDetect.                  *)
(***************************************************************************)
ExpectedIntentSet == "expected_intent" \in DOMAIN call.current_context

MemoryInFocus == "memory_id" \in DOMAIN call.current_context

EditKeyword(text) ==
  \E kw \in {"change", "edit", "update"} : Contains(lower(text), kw)

DeleteKeyword(text) ==
  \E kw \in {"delete", "remove"} : Contains(lower(text), kw)

\* C1: whenever the context given to detect_intent has expected_intent set,
\* the result is that expected_intent, whatever the text matches and whether
\* or not memory_id is set as well.
C1_ContextOverride ==
  (call.pc = "returned" /\ ExpectedIntentSet)
    => call.intent = call.current_context["expected_intent"]

\* a text that matches a save_memory pattern and holds an edit keyword, with
\* both keys in the context: the expected intent is still what comes back
C1_Witness ==
  /\ call.pc = "returned"
  /\ call.text = <<"Save", "memory", "change">>
  /\ DOMAIN call.current_context = {"expected_intent", "memory_id"}
  /\ call.current_context["expected_intent"] = "confirm_delete"
  /\ call.intent = "confirm_delete"

\* C8: with memory_id set and expected_intent not set, a text holding
\* change / edit / update is edit_memory; otherwise a text holding delete /
\* remove is delete_memory; otherwise the result is that of the table scan.
\* The keyword checks win over any table entry the text also matches.
C8_MemoryInFocus ==
  (call.pc = "returned" /\ MemoryInFocus /\ ~ExpectedIntentSet)
    => call.intent =
         IF EditKeyword(call.text) THEN "edit_memory"
         ELSE IF DeleteKeyword(call.text) THEN "delete_memory"
         ELSE ScanTable(lower(call.text), 1)

\* "find memory delete" matches the search_memory entry of the table, and is
\* delete_memory because a memory is in focus
C8_Witness ==
  /\ call.pc = "returned"
  /\ call.text = <<"find", "memory", "delete">>
  /\ DOMAIN call.current_context = {"memory_id"}
  /\ ScanTable(lower(call.text), 1) = "search_memory"
  /\ call.intent = "delete_memory"

\* the order of the table, as the design states it
TableOrder == <<"save_memory", "search_memory", "delete_memory", "edit_memory",
                "update_name", "update_avatar", "update_password">>

\* some pattern listed for the intent matches the lower-cased text
IntentMatches(intent, text) ==
  \E n \in 1..Len(intent_patterns) :
    /\ intent_patterns[n].intent = intent
    /\ \E j \in 1..Len(intent_patterns[n].patterns) :
         re_search(intent_patterns[n].patterns[j], lower(text))

\* C9: with no expected_intent and no in-focus keyword hit, a text matched
\* by the patterns of one or more intents gets the intent that comes first
\* in the order save_memory, search_memory, delete_memory, edit_memory,
\* update_name, update_avatar, update_password.
C9_TablePrecedence ==
  LET hits == {n \in 1..Len(TableOrder) : IntentMatches(TableOrder[n], call.text)}
  IN (/\ call.pc = "returned"
      /\ ~ExpectedIntentSet
      /\ ~(MemoryInFocus /\ (EditKeyword(call.text) \/ DeleteKeyword(call.text)))
      /\ hits # {})
       => call.intent = TableOrder[CHOOSE n \in hits : \A m \in hits : n <= m]

\* "change memory name" matches edit_memory and update_name patterns
C9_Witness ==
  /\ call.pc = "returned"
  /\ call.text = <<"change", "memory", "name">>
  /\ call.current_context = EmptyDict
  /\ IntentMatches("edit_memory", call.text)
  /\ IntentMatches("update_name", call.text)
  /\ call.intent = "edit_memory"

(***************************************************************************)
(* Properties of a send-message turn.  `last` holds the turn: the request, *)
(* the context read at its start, the detected intent and the outcome.     *)
(***************************************************************************)
DictOf1(k, v) == Put(EmptyDict, k, v)

DictOf2(k1, v1, k2, v2) == Put(Put(EmptyDict, k1, v1), k2, v2)

\* C2: after a successful turn whose response intent is save_memory,
\* add_description, edit_memory, confirm_delete or update_password, the
\* user's stored context has expected_intent equal to the response intent,
\* and memory_id equal to the request's memoryId when the request has one.
C2_ContextArmed ==
  (last.op = "send" /\ last.ok /\ last.response.intent \in ContinuationIntents)
    => /\ last.user \in DOMAIN conversation_contexts
       /\ "expected_intent" \in DOMAIN conversation_contexts[last.user]
       /\ conversation_contexts[last.user]["expected_intent"] = last.response.intent
       /\ Truthy(last.request.memoryId)
            => /\ "memory_id" \in DOMAIN conversation_contexts[last.user]
               /\ conversation_contexts[last.user]["memory_id"] = last.request.memoryId

\* a turn detected as delete_memory answers confirm_delete: the context is
\* armed with the response intent and keeps the request's memoryId
C2_Witness ==
  /\ last.op = "send" /\ last.ok
  /\ last.intent = "delete_memory"
  /\ last.response.intent = "confirm_delete"
  /\ last.request.memoryId = "mem-1"
  /\ conversation_contexts[last.user] =
       DictOf2("expected_intent", "confirm_delete", "memory_id", "mem-1")

\* C3: after a turn whose response intent is memory_saved, memory_deleted,
\* memory_updated, name_changed, avatar_updated or password_updated, the user
\* has no entry in the store and a lookup gives the empty context.
C3_ContextCleared ==
  (last.op = "send" /\ last.ok /\ last.response.intent \in CompletionIntents)
    => /\ last.user \notin DOMAIN conversation_contexts
       /\ Get(conversation_contexts, last.user) = EmptyDict

\* a user in an armed flow gets a memory_saved response: the entry is gone
C3_Witness ==
  /\ last.op = "send" /\ last.ok
  /\ last.response.intent = "memory_saved"
  /\ "expected_intent" \in DOMAIN last.context
  /\ last.user \notin DOMAIN conversation_contexts

\* C4: a successful turn whose response intent is in neither list has one of
\* the intents chat, search_memory, update_name, update_avatar and leaves
\* the whole store as it was; no entry appears for a user who had none.
C4_ContextUnchanged ==
  [][(/\ last'.op = "send" /\ last'.ok
      /\ last'.response.intent \notin ContinuationIntents \cup CompletionIntents)
       => /\ last'.response.intent \in
               {"chat", "search_memory", "update_name", "update_avatar"}
          /\ conversation_contexts' = conversation_contexts]_vars

\* a user without an entry is answered search_memory and still has no entry
C4_Witness ==
  /\ last.op = "send" /\ last.ok
  /\ last.response.intent = "search_memory"
  /\ last.context = EmptyDict
  /\ last.user \notin DOMAIN conversation_contexts

\* C5: from the context {expected_intent: save_memory}, a message with an
\* image and no memoryId is detected as save_memory, creates a memory, is
\* answered add_description with meta.memoryId the new memory's id, and
\* leaves the context {expected_intent: add_description, memory_id: new id}.
C5_SaveFlowSecondTurn ==
  (/\ last.op = "send" /\ last.ok
   /\ last.context = DictOf1("expected_intent", "save_memory")
   /\ Truthy(last.request.imageUrl)
   /\ ~Truthy(last.request.memoryId))
    => /\ last.intent = "save_memory"
       /\ memories # <<>>
       /\ last.response.intent = "add_description"
       /\ last.response.meta["memoryId"] = memories[Len(memories)].id
       /\ conversation_contexts[last.user] =
            DictOf2("expected_intent", "add_description",
                    "memory_id", memories[Len(memories)].id)

\* C6: a turn detected as save_memory (by pattern or by the context) whose
\* request has no image is answered save_memory with meta {needImage: true},
\* creates no memory, and leaves expected_intent = save_memory in the context.
C6_SaveWithoutImage ==
  [][(/\ last'.op = "send" /\ last'.fault = "none"
      /\ last'.intent = "save_memory"
      /\ ~Truthy(last'.request.imageUrl))
       => /\ last'.ok
          /\ last'.response.intent = "save_memory"
          /\ DOMAIN last'.response.meta = {"needImage"}
          /\ last'.response.meta["needImage"] = TRUE
          /\ memories' = memories
          /\ last'.user \in DOMAIN conversation_contexts'
          /\ conversation_contexts'[last'.user]["expected_intent"] = "save_memory"]_vars

\* a user already asked for a photo sends a text without one: asked again
C6_Witness ==
  /\ last.op = "send" /\ last.ok
  /\ last.request.text = <<"hello">>
  /\ last.request.imageUrl = None
  /\ last.context = DictOf1("expected_intent", "save_memory")
  /\ last.response.intent = "save_memory"
  /\ memories = <<>>
  /\ conversation_contexts[last.user]["expected_intent"] = "save_memory"

\* C7: a turn detected as save_memory whose request has an image adds one
\* row to the memories: a new id, owned by the user, with the image url and
\* no title, description or labels; its response is add_description with
\* meta.memoryId the new id and meta.imageUrl the url.
C7_SaveWithImage ==
  [][(/\ last'.op = "send" /\ last'.fault = "none"
      /\ last'.intent = "save_memory"
      /\ Truthy(last'.request.imageUrl))
       => /\ Len(memories') = Len(memories) + 1
          /\ SubSeq(memories', 1, Len(memories)) = memories
          /\ LET memory == memories'[Len(memories')] IN
             /\ \A i \in 1..Len(memories) : memories[i].id # memory.id
             /\ memory.user_id = last'.user
             /\ memory.image_url = last'.request.imageUrl
             /\ memory.title = None
             /\ memory.description = None
             /\ memory.labels = <<>>
             /\ ~memory.is_deleted
             /\ last'.ok
             /\ last'.response.intent = "add_description"
             /\ last'.response.meta["memoryId"] = memory.id
             /\ last'.response.meta["imageUrl"] = last'.request.imageUrl]_vars

\* the text "Save memory" arrives with an image: the user owns a new memory
C7_Witness ==
  /\ last.op = "send" /\ last.ok
  /\ last.request.text = <<"Save", "memory">>
  /\ last.intent = "save_memory"
  /\ last.response.intent = "add_description"
  /\ Len(memories) = 1
  /\ memories[1].user_id = last.user
  /\ last.response.meta["memoryId"] = memories[1].id

\* the intents process_message has a branch for
HandledIntents == {TableOrder[n] : n \in 1..Len(TableOrder)}

\* C10: a turn always gets an intent; a text that no pattern matches, with
\* no expected_intent and no in-focus keyword hit, is chat; and a turn whose
\* intent has no handler of its own succeeds with a chat response.
C10_ChatFallback ==
  (last.op = "send" /\ last.fault = "none")
    => /\ last.intent \in IntentId
       /\ (/\ "expected_intent" \notin DOMAIN last.context
           /\ ~("memory_id" \in DOMAIN last.context
                /\ (EditKeyword(last.request.text) \/ DeleteKeyword(last.request.text)))
           /\ \A n \in 1..Len(TableOrder) :
                ~IntentMatches(TableOrder[n], last.request.text))
            => last.intent = "chat"
       /\ last.intent \notin HandledIntents
            => /\ last.ok
               /\ last.response.intent = "chat"
               /\ last.response.sender = "ai"

\* "delete name" matches no pattern: chat, answered by the chat handler
C10_Witness ==
  /\ last.op = "send" /\ last.ok
  /\ last.request.text = <<"delete", "name">>
  /\ last.context = EmptyDict
  /\ last.intent = "chat"
  /\ last.response.intent = "chat"

(***************************************************************************)
(* Turns that name a memory, and turns that fail (SpecMemory).             *)
(***************************************************************************)
\* the memory a request names exists and is not deleted
Resolves(memory_id) == get_by_id(memories, memory_id, FALSE) # 0

C12_DeleteLookup ==
  (/\ last.op = "send" /\ last.fault = "none" /\ last.intent = "delete_memory"
   /\ Truthy(last.request.memoryId) /\ ~Resolves(last.request.memoryId))
    => /\ ~last.ok
       /\ last.raised = "MemoryNotFoundError"
       /\ Get(conversation_contexts, last.user) = last.context

\* C13: a turn that fails, because the memory is not found or because a
\* write to the database fails, leaves the whole context store as it was.
C13_FailureKeepsContext ==
  [][(last'.op = "send" /\ ~last'.ok)
       => /\ conversation_contexts' = conversation_contexts
          /\ Get(conversation_contexts', last'.user) = last'.context]_vars

\* a user in an armed flow names a memory that does not exist: the turn
\* fails and the flow is still armed as before
C13_Witness ==
  /\ last.op = "send" /\ ~last.ok
  /\ last.raised = "MemoryNotFoundError"
  /\ last.context = DictOf1("expected_intent", "edit_memory")
  /\ conversation_contexts[last.user] = last.context

(***************************************************************************)
(* What a request leaves in the messages table (SpecRequest).              *)
(***************************************************************************)
\* the row is the inbound message of the turn in `turn`
IsInbound(row, turn) ==
  /\ row.user_id = turn.user
  /\ row.sender = "user"
  /\ row.content = turn.request.text
  /\ row.meta = Put(EmptyDict, "imageUrl", turn.request.imageUrl)

\* the row is the response the turn in `turn` has returned
IsReply(row, turn) ==
  /\ row.user_id = turn.user
  /\ row.sender = "ai" /\ turn.response.sender = "ai"
  /\ row.msgId = turn.response.msgId
  /\ row.intent = turn.response.intent
  /\ row.content = turn.response.content
  /\ row.meta = turn.response.meta

Overlapping(t1, t2) ==
  /\ t1 \in DOMAIN tasks /\ t2 \in DOMAIN tasks /\ t1 # t2
  /\ tasks[t1].user = tasks[t2].user
  /\ tasks[t1].pc \in InBody
  /\ tasks[t2].pc = "accepted"

\* C15, as stated: nothing keeps the turns of a user apart, so while one
\* turn is between its context read and its context write, another turn of
\* the same user can read the same context.
C15_TurnsInterleave ==
  \A t1, t2 \in TaskIds : Overlapping(t1, t2) => ENABLED ReadContext(t2)

\* C15, amended: at most one call is between its context read and its
\* context write, and the context it has read is the one the store holds
\* for its user; so a turn never works from a context that another turn has
\* since replaced, and no update is lost.
C15_TurnsSerialized ==
  /\ \A t1, t2 \in DOMAIN tasks :
       (tasks[t1].pc \in InBody /\ tasks[t2].pc \in InBody) => t1 = t2
  /\ \A t \in DOMAIN tasks :
       tasks[t].pc \in InBody
         => tasks[t].user_context = Get(conversation_contexts, tasks[t].user)

\* two requests of one user were accepted together; the second has entered
\* the body after the first finished and has read the context the first wrote
C15_Witness ==
  /\ DOMAIN tasks = {1, 2}
  /\ tasks[1].user = tasks[2].user
  /\ tasks[1].pc = "done" /\ tasks[1].intent = "save_memory"
  /\ tasks[2].pc = "read"
  /\ tasks[2].user_context = DictOf1("expected_intent", "save_memory")
  /\ Len(messages) = 2

(***************************************************************************)
(* The context endpoints and the store (Spec).                             *)
(***************************************************************************)
\* the three endpoints that touch the store
ContextOps == {"send", "context", "clear"}

\* the entry of a user, or the lack of one, is the same before and after
SameEntry(user_id) ==
  /\ (user_id \in DOMAIN conversation_contexts') = (user_id \in DOMAIN conversation_contexts)
  /\ user_id \in DOMAIN conversation_contexts
       => conversation_contexts'[user_id] = conversation_contexts[user_id]

\* C16: a send, a context fetch or a context clear of one user leaves the
\* entry of every other user as it was: none is created, changed or removed.
C16_OwnEntryOnly ==
  [][(last'.op \in ContextOps)
       => \A other \in Users \ {last'.user} : SameEntry(other)]_vars

\* one user clears the context while the other is in an armed flow, and the
\* other's flow is still armed
C16_Witness ==
  /\ last.op = "clear"
  /\ \E other \in Users \ {last.user} :
       /\ other \in DOMAIN conversation_contexts
       /\ conversation_contexts[other]["expected_intent"] = "update_password"

(***************************************************************************)
(* Turns about the profile (SpecProfile).                                  *)
(***************************************************************************)
ProfileIntents == {"update_name", "update_avatar", "update_password"}

\* the prompt of a profile intent, for a user of the given name
ProfilePrompt(intent, name) ==
  IF intent = "update_name"
  THEN <<"Of course. Your current name is ", name, ". What would you like it to be?">>
  ELSE intent_responses[intent].value

\* C17: no send-message turn changes the users table (name, avatar url,
\* password hash of any user); a turn detected as update_name, update_avatar
\* or update_password succeeds with the prompt of that intent and no more.
C17_ProfilePromptsOnly ==
  [][(last'.op = "send")
       => /\ users' = users
          /\ last'.intent \in ProfileIntents
               => /\ last'.ok
                  /\ last'.response.intent = last'.intent
                  /\ last'.response.content =
                       ProfilePrompt(last'.intent, users[last'.user].name)
                  /\ last'.response.meta = EmptyDict]_vars

\* a user who has taken the name Cy through POST /update-name asks to change
\* the name in the chat: the prompt quotes Cy and the name stays Cy
C17_Witness ==
  /\ last.op = "send" /\ last.ok
  /\ last.request.text = <<"change", "name">>
  /\ last.intent = "update_name"
  /\ users[last.user].name = "Cy"
  /\ last.response.content[2] = "Cy"

(***************************************************************************)
(* The debug endpoints GET /context and POST /clear-context (Spec).        *)
(***************************************************************************)
\* C18: a context fetch answers the stored entry of the user, {} when there
\* is none, and changes nothing; a context clear succeeds whether or not the
\* user has an entry, leaves the user without one (so that a fetch answers
\* {}) and touches nothing else; the turn of a user without an entry reads
\* an empty context and is classified as its text alone is.
C18_DebugOperations ==
  [][/\ (last'.op = "context")
          => /\ last'.context = IF last'.user \in DOMAIN conversation_contexts
                                THEN conversation_contexts[last'.user]
                                ELSE EmptyDict
             /\ UNCHANGED <<conversation_contexts, memories, messages, users>>
     /\ (last'.op = "clear")
          => /\ last'.success
             /\ last'.user \notin DOMAIN conversation_contexts'
             /\ Get(conversation_contexts', last'.user) = EmptyDict
             /\ \A other \in Users \ {last'.user} : SameEntry(other)
             /\ UNCHANGED <<memories, messages, users>>
     /\ (last'.op = "send" /\ last'.user \notin DOMAIN conversation_contexts)
          => /\ last'.context = EmptyDict
             /\ last'.intent = detect_intent(last'.request.text, EmptyDict)]_vars

\* the first turn armed the deletion flow of a user; the second turn of the
\* same user read an empty context, which only a clear in between explains,
\* and was classified as chat where the armed context would have said delete
C18_Witness ==
  /\ last.op = "send" /\ last.ok
  /\ Len(messages) = 4
  /\ \A i \in 1..4 : messages[i].user_id = last.user
  /\ messages[2].intent = "confirm_delete"
  /\ last.context = EmptyDict
  /\ last.intent = "chat"
  /\ detect_intent(last.request.text,
                   Put(EmptyDict, "expected_intent", "confirm_delete")) # "chat"

(***************************************************************************)
(* Validation of the request body (SpecRequest).                           *)
(***************************************************************************)
\* C19: a request whose text is empty, or longer than 2000 characters, is
\* answered 422 with no intent detected and no response built; no message
\* is persisted, no memory is created or changed, and the context of the
\* user is as it was.
C19_RejectedBeforeHandling ==
  [][(/\ last'.op = "send"
      /\ \/ CharLen(last'.request.text) = 0
         \/ CharLen(last'.request.text) > 2000)
       => /\ ~last'.ok
          /\ last'.status = 422
          /\ last'.intent = None
          /\ last'.response = None
          /\ messages' = messages
          /\ memories' = memories
          /\ conversation_contexts' = conversation_contexts]_vars

\* a text of 2001 characters, sent with a photo by a user whose save flow is
\* armed, is turned away: the flow stays armed and nothing is stored
C19_Witness ==
  /\ last.op = "send"
  /\ last.request.text = <<LongWord, "hello">>
  /\ Truthy(last.request.imageUrl)
  /\ last.status = 422
  /\ "u1" \in DOMAIN conversation_contexts
  /\ conversation_contexts["u1"]["expected_intent"] = "save_memory"
  /\ memories = <<>>

(***************************************************************************)
(* The history of a conversation (SpecHistory).                            *)
(***************************************************************************)
\* the last n rows of a user, in the order they were persisted
LastPersisted(user_id, n) ==
  LET rows == SelectSeq(messages, LAMBDA m : m.user_id = user_id)
      k    == Min(n, Len(rows))
  IN [i \in 1..k |-> to_dict(rows[Len(rows) - k + i])]

\* C20: get_conversation_history(user, N) returns exactly the last N
\* messages persisted for the user (all of them if there are fewer), oldest
\* first in the order they were persisted, so that the message of a turn
\* comes before its reply; no message of another user is returned.
C20_HistoryInPersistedOrder ==
  [][(last'.op = "history")
       => last'.messages = LastPersisted(last'.user, last'.limit)]_vars

\* no message of another user is returned
C20_OwnMessagesOnly ==
  [][(last'.op = "history")
       => \A i \in 1..Len(last'.messages) :
            \E m \in {messages[j] : j \in 1..Len(messages)} :
              m.user_id = last'.user /\ to_dict(m) = last'.messages[i]]_vars

\* a history that shows the reply of a turn before the message it answers
C20_ReplyBeforeMessage ==
  /\ last.op = "history"
  /\ Len(last.messages) >= 2
  /\ last.messages[1].sender = "ai"
  /\ last.messages[2].sender = "user"
  /\ last.messages[1].msgId[2] = last.messages[2].msgId[2] + 1

(***************************************************************************)
(* Properties of generate_response (SpecRender).                           *)
(***************************************************************************)
\* the variants under "chat", each as a string of one piece
ChatVariants ==
  LET variants == intent_responses["chat"].value
  IN { <<variants[i]>> : i \in 1..Len(variants) }

\* C21: for intent chat, generate_response returns a content that is one of
\* the variants the catalog holds under chat, and so never the empty string.
C21_ChatHasContent ==
  [][(last'.op = "render" /\ last'.intent = "chat")
       => last'.response.content \in ChatVariants]_vars

\* the template of an intent with each slot of the template filled from the
\* data that supplies it, and every other piece of the template as it is
Filled(intent, user_data, context) ==
  LET template == intent_responses[intent].value
  IN [i \in 1..Len(template) |->
        IF /\ template[i] = "{current_name}"
           /\ intent = "update_name"
           /\ HasKey(user_data, "current_name")
        THEN user_data["current_name"]
        ELSE IF template[i] = "{new_name}" /\ HasKey(context, "new_name")
        THEN context["new_name"]
        ELSE template[i]]

C22_SlotSubstitutionOfPlainNames ==
  [][(/\ last'.op = "render"
      /\ last'.intent \in ResponseKeys
      /\ intent_responses[last'.intent].is_str
      /\ ~(/\ HasKey(last'.user_data, "current_name")
           /\ last'.user_data["current_name"] = "{new_name}"
           /\ HasKey(last'.context, "new_name")))
       => last'.response.content =
            Filled(last'.intent, last'.user_data, last'.context)]_vars

\* the fixed table of per-intent metadata
MetaTable(intent) ==
  CASE intent = "save_memory"    -> [k \in {"needImage"} |-> TRUE]
    [] intent = "confirm_delete" -> [k \in {"options"} |-> <<"photo", "memory">>]
    [] intent = "edit_memory"    -> [k \in {"fields"} |-> <<"title", "description">>]
    [] OTHER                     -> [k \in {} |-> TRUE]

\* C23: the meta of a rendered response is {needImage: true} for
\* save_memory, {options: [photo, memory]} for confirm_delete, {fields:
\* [title, description]} for edit_memory and empty for every other intent,
\* whatever a caller has added to the meta of an earlier response.
C23_MetaPerIntent ==
  [][(last'.op = "render")
       => last'.response.meta = MetaTable(last'.intent)]_vars

\* a confirm_delete response rendered after a caller put memoryId into the
\* meta of the response before: it carries the options and no memoryId
C23_Witness ==
  /\ last.op = "render"
  /\ last.intent = "confirm_delete"
  /\ "memoryId" \in DOMAIN call.held
  /\ DOMAIN last.response.meta = {"options"}

(***************************************************************************)
(* Message ids (SpecIds).                                                  *)
(***************************************************************************)
\* C24: no two stored messages share a msgId, whether their ids were drawn
\* in different milliseconds or in the same one.
C24_DistinctMsgIds ==
  \A i, j \in 1..Len(messages) :
    i # j => messages[i].msgId # messages[j].msgId

\* ids drawn in different milliseconds, or under different prefixes, differ
C24_DistinctAcrossMilliseconds ==
  \A i, j \in 1..Len(messages) :
    (i # j /\ messages[i].msgId = messages[j].msgId)
      => /\ messages[i].msgId[1] = messages[j].msgId[1]
         /\ messages[i].msgId[2][1] = messages[j].msgId[2][1]

(***************************************************************************)
(* Search turns (SpecSearch).                                              *)
(***************************************************************************)
\* the text occurs in the column, letter case aside
Occurs(text, column) ==
  /\ column # None
  /\ \E k \in 0..Len(column) :
       /\ k + Len(text) <= Len(column)
       /\ \A i \in 1..Len(text) : Lower(column[k + i]) = Lower(text[i])

\* the memories of the user that are not deleted and carry the text
Matches(user_id, text) ==
  { i \in 1..Len(memories) :
      /\ memories[i].user_id = user_id
      /\ ~memories[i].is_deleted
      /\ \/ Occurs(text, memories[i].description)
         \/ Occurs(text, memories[i].title)
         \/ \E j \in 1..Len(memories[i].labels) :
              memories[i].labels[j] = lower(text) }

MatchKeys == {"id", "user_id", "image_url", "description", "title", "labels",
             "is_deleted"}

\* C25: a turn classified search_memory answers search_memory; when some
\* memory of the user that is not deleted carries the text of the message,
\* the meta of the response holds the fields of one such memory, the first
\* the search returns, and of no other; when none does, the meta holds no
\* field of a memory; the context store and the memories are left as they
\* were.
C25_SearchTurn ==
  [][(last'.op = "send" /\ last'.ok /\ last'.intent = "search_memory")
       => LET found == Matches(last'.user, last'.request.text)
              meta  == last'.response.meta
          IN /\ last'.response.intent = "search_memory"
             /\ IF found = {}
                THEN DOMAIN meta \cap MatchKeys = {}
                ELSE /\ DOMAIN meta = MatchKeys
                     /\ \E i \in found :
                          /\ \A j \in found : j <= i
                          /\ \A k \in MatchKeys : meta[k] = memories[i][k]
             /\ conversation_contexts' = conversation_contexts
             /\ memories' = memories]_vars

\* two memories of the user carry the words of the message, one in its
\* description and one in a title in capitals: the response shows the newer
C25_Witness ==
  /\ last.op = "send" /\ last.ok
  /\ last.intent = "search_memory"
  /\ Len(memories) = 2
  /\ \A i \in 1..2 : memories[i].user_id = last.user /\ ~memories[i].is_deleted
  /\ <<"find", "memory">> = memories[1].description
  /\ <<"Save", "find", "memory">> = memories[2].title
  /\ last.response.meta["id"] = memories[2].id

(***************************************************************************)
(* The entries of the context store (Spec).                                *)
(***************************************************************************)
\* the expected intents an entry can hold
StoredIntents == {"save_memory", "add_description", "edit_memory",
                  "confirm_delete", "update_password"}

\* C26: every entry of the context store has expected_intent, with a value
\* among save_memory, add_description, edit_memory, confirm_delete and
\* update_password (so never update_name, update_avatar or
\* confirm_password, the intents of AwaitingNewName, AwaitingAvatarPhoto
\* and AwaitingPasswordConfirmation); no entry has memory_id without
\* expected_intent, and no turn reads a context that has.
C26_StoredContexts ==
  /\ \A user_id \in DOMAIN conversation_contexts :
       /\ "expected_intent" \in DOMAIN conversation_contexts[user_id]
       /\ conversation_contexts[user_id]["expected_intent"] \in StoredIntents
  /\ (last.op = "send" /\ DOMAIN last.context # {})
       => "expected_intent" \in DOMAIN last.context

\* a user in the deletion flow of a memory writes "change memory": the
\* context read has memory_id, and the turn follows expected_intent, not
\* the keyword
C26_Witness ==
  /\ last.op = "send" /\ last.ok
  /\ HasKey(last.context, "memory_id")
  /\ last.request.text = <<"change", "memory">>
  /\ last.context["expected_intent"] = "confirm_delete"
  /\ last.intent = "confirm_delete"
  /\ HasKey(conversation_contexts[last.user], "memory_id")

(***************************************************************************)
(* The life of a context entry under send-message turns (SpecTurn).        *)
(***************************************************************************)
FlowEnds == {"memory_saved", "memory_deleted", "memory_updated",
             "name_changed", "avatar_updated", "password_updated"}

\* C27: no turn answers with an intent that ends a flow; a turn of a user
\* who has a context entry leaves the user with an entry, whose
\* expected_intent is the one it was or has gone from save_memory to
\* add_description; from add_description, confirm_delete, edit_memory and
\* update_password it stays the same whatever the text, the image and the
\* memoryId of the message.
C27_FlowsNeverComplete ==
  [][(last'.op = "send")
       => /\ last'.ok => last'.response.intent \notin FlowEnds
          /\ last'.user \in DOMAIN conversation_contexts
               => /\ last'.user \in DOMAIN conversation_contexts'
                  /\ LET was == conversation_contexts[last'.user]["expected_intent"]
                         is  == conversation_contexts'[last'.user]["expected_intent"]
                     IN \/ is = was
                        \/ was = "save_memory" /\ is = "add_description"]_vars

\* a user in the deletion flow of a memory sends "Save memory" with a photo:
\* the turn succeeds and the flow is still the deletion flow
C27_Witness ==
  /\ last.op = "send" /\ last.ok
  /\ HasKey(last.context, "expected_intent")
  /\ last.context["expected_intent"] = "confirm_delete"
  /\ last.request.text = <<"Save", "memory">>
  /\ Truthy(last.request.imageUrl)
  /\ conversation_contexts[last.user]["expected_intent"] = "confirm_delete"

(***************************************************************************)
(* What turns do to the memories table (SpecKeep).                         *)
(***************************************************************************)
\* C28: a send-message turn leaves every memory record that exists as it
\* is, not deleted, not soft-deleted and not modified; it adds a record only
\* when its intent is save_memory and the request carries an imageUrl, and
\* then exactly one; a message with an imageUrl of any other intent adds
\* nothing.
C28_MemoriesOnlyAdded ==
  [][(last'.op = "send")
       => /\ Len(memories') \in {Len(memories), Len(memories) + 1}
          /\ \A i \in 1..Len(memories) : memories'[i] = memories[i]
          /\ Len(memories') > Len(memories)
               => /\ last'.intent = "save_memory"
                  /\ last'.request.imageUrl \notin {None, ""}
          /\ (/\ last'.ok
              /\ last'.intent = "save_memory"
              /\ last'.request.imageUrl \notin {None, ""})
               => Len(memories') = Len(memories) + 1]_vars

\* the owner of a memory has asked to delete it and now answers the prompt
\* with "delete memory" and a photo: the turn succeeds, nothing is added and
\* the memory is as it was
C28_Witness ==
  /\ last.op = "send" /\ last.ok
  /\ HasKey(last.context, "memory_id")
  /\ last.context["expected_intent"] = "confirm_delete"
  /\ last.request.text = <<"delete", "memory">>
  /\ Truthy(last.request.imageUrl)
  /\ Len(memories) = 1
  /\ memories[1].id = last.context["memory_id"]
  /\ memories[1].user_id = last.user
  /\ ~memories[1].is_deleted

(***************************************************************************)
(* The memory a context refers to (SpecMemory).                            *)
(***************************************************************************)
\* the id is that of a memory of the user that is not deleted
OwnsLive(user_id, memory_id) ==
  \E i \in 1..Len(memories) :
    /\ memories[i].id = memory_id
    /\ memories[i].user_id = user_id
    /\ ~memories[i].is_deleted

\* C29: the memory_id of a stored context is the id of an existing memory
\* of that user that is not deleted, and so is meta.memoryId of every
\* confirm_delete or edit_memory response returned to the user.
C29_ContextMemoryValid ==
  /\ \A user_id \in DOMAIN conversation_contexts :
       "memory_id" \in DOMAIN conversation_contexts[user_id]
         => OwnsLive(user_id, conversation_contexts[user_id]["memory_id"])
  /\ (/\ last.op = "send" /\ last.ok
      /\ last.response.intent \in {"confirm_delete", "edit_memory"}
      /\ "memoryId" \in DOMAIN last.response.meta)
       => OwnsLive(last.user, last.response.meta["memoryId"])

\* the memoryId of an edit_memory response is that of an existing memory
\* that is not deleted, at the time of the response
C29_EditResponseResolves ==
  [][(/\ last'.op = "send" /\ last'.ok
      /\ last'.response.intent = "edit_memory"
      /\ "memoryId" \in DOMAIN last'.response.meta)
       => \E i \in 1..Len(memories') :
            /\ memories'[i].id = last'.response.meta["memoryId"]
            /\ ~memories'[i].is_deleted]_vars

(***************************************************************************)
(* The intents of persisted messages (Spec).                               *)
(***************************************************************************)
RenderedIntents == {"chat", "save_memory", "add_description", "search_memory",
                    "confirm_delete", "edit_memory", "update_name",
                    "update_avatar", "update_password"}

\* C30: every persisted message, of a user or of the assistant, has an
\* intent of the IntentId enumeration, and every assistant message has one
\* of chat, save_memory, add_description, search_memory, confirm_delete,
\* edit_memory, update_name, update_avatar, update_password.
C30_PersistedIntents ==
  \A i \in 1..Len(messages) :
    /\ messages[i].intent \in IntentId
    /\ messages[i].sender = "ai" => messages[i].intent \in RenderedIntents

\* the part of it about the assistant's messages
C30_AssistantIntents ==
  \A i \in 1..Len(messages) :
    messages[i].sender = "ai" => messages[i].intent \in RenderedIntents

====
